---- MODULE Spec2Model ----
(***************************************************************************)
(* A model of download_disc_images.py: the catalog table disc_data, the     *)
(* backup directory ./images, the main thread of main() and the worker      *)
(* threads of its ThreadPoolExecutor, over repeated runs of the script.      *)
(*                                                                          *)
(* Text and bytes are sequences of one-character strings; an SQL value is   *)
(* a record [type, v] with type "null", "text" or "blob".  Python's None    *)
(* and the empty string/bytes are both the empty sequence: the code only    *)
(* ever tests them for truth.                                               *)
(***************************************************************************)
EXTENDS Integers, Sequences, FiniteSets, TLC

VARIABLES
    hasImg,        \* the table disc_data has a column img
    catalog,       \* id -> row of disc_data (weblink, img, manufacturer, model)
    remote,        \* id -> what the record's web page and image answer
    files,         \* ./images: file name -> content
    run,           \* number of the current run of main()
    pc,            \* main()'s position
    discs,         \* main()'s local: the list get_discs_to_process returned
    submitted,     \* how many of discs have been passed to executor.submit
    queue,         \* the executor's work queue (ids, FIFO)
    task,          \* id -> the state of the record's future
    yielded,       \* ids whose future as_completed has already yielded
    cur,           \* id of the future the loop body is handling, 0 if none
    success_count, \* main()'s local
    fail_count,    \* main()'s local
    summary,       \* the logged "Completed" line: <<>> or <<success, fail>>
    fatal,         \* which call raised out of main(), "none" if none
    counted,       \* history: id -> times the record was added to a counter
    dbUpdates,     \* history: id -> committed UPDATEs of this run
    dbRaised,      \* history: ids whose update_db_image raised in this run
    fileWrites,    \* history: id -> times this run opened the record's file
    prevRun,       \* history: how the previous run ended and what it left
    populated,     \* history: ids whose img some run's update_db_image has set
    openConns,     \* sqlite3 connections update_db_image has open
    alterCount,    \* history: times ALTER TABLE .. ADD COLUMN img was executed
    failedIds,     \* history: ids this run added to fail_count
    lastWriter,    \* history: file name -> this run's save_to_file that last opened it
    arg,           \* the arguments of a call of one function on its own
    ret            \* its result

vars == <<hasImg, catalog, remote, files, run, pc, discs, submitted, queue, task,
          yielded, cur, success_count, fail_count, summary, fatal, counted,
          dbUpdates, dbRaised, fileWrites, prevRun, populated, openConns, alterCount,
          failedIds, lastWriter, arg, ret>>

storeVars == <<hasImg, catalog, files>>
poolVars == <<queue, task>>
countVars == <<success_count, fail_count, counted, failedIds>>
histVars == <<dbUpdates, dbRaised, fileWrites>>
callVars == <<arg, ret>>
auxVars == <<openConns, alterCount, lastWriter, callVars>>

-----------------------------------------------------------------------------
(* Bounds and program constants *)

MaxDiscs == 2
MaxRuns == 2
PoolDiscs == 11
MAX_WORKERS == 10

-----------------------------------------------------------------------------
(* Values *)

NULL == [type |-> "null", v |-> <<>>]
Text(s) == [type |-> "text", v |-> s]
Blob(b) == [type |-> "blob", v |-> b]

None == <<>>
Truthy(x) == Len(x) > 0

Ids == DOMAIN catalog

PageUrl == <<"u">>

\* What a record's page and image do when fetched.
Responses == {"page_error", "no_markup", "image_error", "corrupt_image", "ok"}

\* The PNG bytes the image of record id is re-encoded to.
PngOf(id) == <<"P", "N", "G", ToString(id)>>

-----------------------------------------------------------------------------
(* sanitize_filename and the derived file name *)

Reserved == {"<", ">", ":", "\"", "/", "\\", "|", "?", "*"}
Whitespace == {" ", "\t"}

\* re.sub(r'[<>:"/\\|?*]', '_', name)
RECURSIVE ReplaceReserved(_)
ReplaceReserved(s) ==
    IF s = <<>> THEN <<>>
    ELSE <<IF Head(s) \in Reserved THEN "_" ELSE Head(s)>> \o ReplaceReserved(Tail(s))

\* re.sub(r'\s+', '_', sanitized): a whole run of whitespace becomes one "_"
RECURSIVE ReplaceSpaceRuns(_, _)
ReplaceSpaceRuns(s, inRun) ==
    IF s = <<>> THEN <<>>
    ELSE IF Head(s) \in Whitespace
         THEN (IF inRun THEN <<>> ELSE <<"_">>) \o ReplaceSpaceRuns(Tail(s), TRUE)
         ELSE <<Head(s)>> \o ReplaceSpaceRuns(Tail(s), FALSE)

sanitize_filename(name) == ReplaceSpaceRuns(ReplaceReserved(name), FALSE)

\* re.sub raises TypeError on None: a NULL manufacturer or model
FilenameRaises(disc) == disc.manufacturer.type = "null" \/ disc.model.type = "null"

FileName(disc) ==
    sanitize_filename(disc.manufacturer.v) \o <<"_">> \o sanitize_filename(disc.model.v)
        \o <<".png">>

-----------------------------------------------------------------------------
(* The selector's WHERE clause, in SQL's three-valued logic *)

And3(a, b) == IF a = "F" \/ b = "F" THEN "F" ELSE IF a = "T" /\ b = "T" THEN "T" ELSE "U"
Or3(a, b) == IF a = "T" \/ b = "T" THEN "T" ELSE IF a = "F" /\ b = "F" THEN "F" ELSE "U"

SqlIsNull(x) == IF x.type = "null" THEN "T" ELSE "F"
SqlIsNotNull(x) == IF x.type = "null" THEN "F" ELSE "T"
\* values of different storage classes are never equal; NULL compares to unknown
SqlEq(a, b) == IF a.type = "null" \/ b.type = "null" THEN "U" ELSE IF a = b THEN "T" ELSE "F"
SqlNe(a, b) == IF a.type = "null" \/ b.type = "null" THEN "U" ELSE IF a = b THEN "F" ELSE "T"

WhereClause_NoImgTest(row) ==
    And3(SqlIsNotNull(row.weblink), SqlNe(row.weblink, Text(<<>>)))

WhereClause_NoEmptyTest(row) ==
    And3(SqlIsNotNull(row.weblink),
         Or3(SqlIsNull(row.img), SqlEq(row.img, Text(<<>>))))

WhereClause_NullOnly(row) ==
    And3(And3(SqlIsNotNull(row.weblink), SqlNe(row.weblink, Text(<<>>))),
         SqlIsNull(row.img))

WhereClause(row) ==
    And3(And3(SqlIsNotNull(row.weblink), SqlNe(row.weblink, Text(<<>>))),
         Or3(SqlIsNull(row.img), SqlEq(row.img, Text(<<>>))))

\* SELECT id, model, manufacturer, weblink: the rows 1..n that pass, in rowid order
RECURSIVE SelectRows(_, _)
SelectRows(cat, n) ==
    IF n = 0 THEN <<>>
    ELSE SelectRows(cat, n - 1) \o
         (IF WhereClause(cat[n]) = "T"
          THEN <<[id |-> n, model |-> cat[n].model,
                  manufacturer |-> cat[n].manufacturer, weblink |-> cat[n].weblink]>>
          ELSE <<>>)

get_discs_to_process(cat) == SelectRows(cat, Cardinality(DOMAIN cat))

DiscIds == {discs[k].id : k \in 1..Len(discs)}
DiscOf(i) == CHOOSE d \in {discs[k] : k \in 1..Len(discs)} : d.id = i

-----------------------------------------------------------------------------
(* Futures *)

Pending == [st |-> "none", png |-> None, filename |-> None]
Queued == [st |-> "queued", png |-> None, filename |-> None]
AtExtract == [st |-> "extract", png |-> None, filename |-> None]
AtDownload == [st |-> "download", png |-> None, filename |-> None]
\* process_disc raised: the future holds the exception
Raised == [st |-> "raised", png |-> None, filename |-> None]
\* process_disc returned (disc_id, png_bytes, filename)
Returned(png, filename) == [st |-> "returned", png |-> png, filename |-> filename]

Executing == {i \in Ids : task[i].st \in {"extract", "download"}}
Finished == {i \in Ids : task[i].st \in {"raised", "returned"}}

-----------------------------------------------------------------------------
(* Initial states: a catalog some loader left, before the first run *)

Weblinks == {NULL, Text(<<>>), Text(PageUrl)}
Imgs(h) == IF h THEN {NULL, Text(<<>>), Blob(<<"o", "l", "d">>)} ELSE {NULL}

Maker == Text(<<"M">>)
NameChoices ==
    { [manufacturer |-> NULL, model |-> Text(<<"c">>)],
      [manufacturer |-> Maker, model |-> Text(<<"a", " ", " ">>)],
      [manufacturer |-> Maker, model |-> Text(<<"a", "/">>)],
      [manufacturer |-> Maker, model |-> Text(<<"c">>)] }

Row(w, g, n) ==
    [weblink |-> w, img |-> g, manufacturer |-> n.manufacturer, model |-> n.model]

BaseName == [manufacturer |-> Maker, model |-> Text(<<"c">>)]

\* every weblink with every img under one name, and a fetchable row under every name
Rows(h) ==
    { Row(w, g, BaseName) : w \in Weblinks, g \in Imgs(h) }
        \cup { Row(Text(PageUrl), NULL, n) : n \in NameChoices }

BaseRow == Row(Text(PageUrl), NULL, BaseName)

\* no function is being called on its own
NotCalled == [done |-> FALSE, v |-> <<>>]

ZeroCount == [i \in DOMAIN catalog |-> 0]

InitRun ==
    /\ run = 1
    /\ pc = "mkdir"
    /\ discs = <<>>
    /\ submitted = 0
    /\ queue = <<>>
    /\ task = [i \in DOMAIN catalog |-> Pending]
    /\ yielded = {}
    /\ cur = 0
    /\ success_count = 0
    /\ fail_count = 0
    /\ summary = <<>>
    /\ fatal = "none"
    /\ counted = ZeroCount
    /\ dbUpdates = ZeroCount
    /\ dbRaised = {}
    /\ fileWrites = ZeroCount
    /\ prevRun = [ended |-> "none", dbRaised |-> {}, catalog |-> catalog, files |-> files]
    /\ populated = {}
    /\ openConns = 0
    /\ alterCount = 0
    /\ failedIds = {}
    /\ lastWriter = <<>>

\* no function is being applied on its own
NoCall == arg = <<>> /\ ret = NotCalled

Init ==
    /\ hasImg \in BOOLEAN
    /\ catalog \in [1..MaxDiscs -> Rows(hasImg)]
    /\ remote \in [1..MaxDiscs -> Responses]
    \* the remote answers vary for the base row only
    /\ \A i \in 1..MaxDiscs : catalog[i] # BaseRow => remote[i] = "ok"
    /\ files = <<>>
    /\ InitRun
    /\ NoCall

-----------------------------------------------------------------------------
(* main(): startup *)

\* an exception raised by lines 196-202 leaves main(): nothing catches it
AfterFatal_Continue(next) == next

AfterFatal(next) == "aborted"

\* IMAGES_DIR.mkdir(exist_ok=True)
MkDir ==
    /\ pc = "mkdir"
    /\ \/ pc' = "ensure" /\ UNCHANGED fatal
       \/ pc' = AfterFatal("ensure") /\ fatal' = "mkdir"
    /\ UNCHANGED <<storeVars, remote, run, discs, submitted, poolVars, yielded, cur,
                   countVars, summary, histVars, prevRun, populated, auxVars>>

\* if "img" not in columns
NeedsAlter_Always(h) == TRUE

NeedsAlter(h) == ~h

\* the PRAGMA, and the ALTER TABLE when the column is missing; either may raise
ensure_img_column ==
    /\ pc = "ensure"
    /\ \/ /\ hasImg' = TRUE
          /\ alterCount' = IF NeedsAlter(hasImg) THEN alterCount + 1 ELSE alterCount
          /\ pc' = "select"
          /\ UNCHANGED fatal
       \/ /\ pc' = AfterFatal("select")
          /\ fatal' = "schema"
          /\ UNCHANGED <<hasImg, alterCount>>
    /\ UNCHANGED <<catalog, files, remote, run, discs, submitted, poolVars, yielded, cur,
                   countVars, summary, histVars, prevRun, populated, openConns, lastWriter,
                   callVars>>

\* discs = get_discs_to_process(DB_PATH); the SELECT names img, so it raises without it
Select ==
    /\ pc = "select"
    /\ \/ /\ hasImg
          /\ discs' = get_discs_to_process(catalog)
          /\ pc' = "selected"
          /\ UNCHANGED fatal
       \/ /\ pc' = AfterFatal("selected")
          /\ fatal' = "selector"
          /\ UNCHANGED discs
    /\ UNCHANGED <<storeVars, remote, run, submitted, poolVars, yielded, cur,
                   countVars, summary, histVars, prevRun, populated, auxVars>>

\* if not discs: return
NoDiscs ==
    /\ pc = "selected"
    /\ discs = <<>>
    /\ pc' = "done"
    /\ UNCHANGED <<storeVars, remote, run, discs, submitted, poolVars, yielded, cur,
                   countVars, summary, fatal, histVars, prevRun, populated, auxVars>>

SomeDiscs ==
    /\ pc = "selected"
    /\ discs # <<>>
    /\ pc' = "submit"
    /\ success_count' = 0
    /\ fail_count' = 0
    /\ UNCHANGED <<storeVars, remote, run, discs, submitted, poolVars, yielded, cur,
                   counted, failedIds, summary, fatal, histVars, prevRun, populated,
                   auxVars>>

-----------------------------------------------------------------------------
(* The executor: submit, and the worker threads running process_disc *)

\* executor.submit(process_disc, disc), one disc of the comprehension at a time;
\* after the last one the for loop over as_completed begins
Submit ==
    /\ pc = "submit"
    /\ submitted < Len(discs)
    /\ LET d == discs[submitted + 1] IN
          /\ task' = [task EXCEPT ![d.id] = Queued]
          /\ queue' = Append(queue, d.id)
    /\ submitted' = submitted + 1
    /\ pc' = IF submitted + 1 = Len(discs) THEN "collect" ELSE "submit"
    /\ UNCHANGED <<storeVars, remote, run, discs, yielded, cur, countVars, summary,
                   fatal, histVars, prevRun, populated, auxVars>>

\* the pool never has more than max_workers threads, each running one work item
CanStartWorker_NoCap == TRUE

CanStartWorker == Cardinality(Executing) < MAX_WORKERS

\* a thread takes the oldest work item and runs process_disc up to the first fetch
\* (lines 154-161): the file name is derived first, and raises on a NULL name
WorkerStart ==
    /\ queue # <<>>
    /\ CanStartWorker
    /\ LET i == Head(queue) IN
          task' = [task EXCEPT ![i] = IF FilenameRaises(DiscOf(i)) THEN Raised
                                      ELSE AtExtract]
    /\ queue' = Tail(queue)
    /\ UNCHANGED <<storeVars, remote, run, pc, discs, submitted, yielded, cur,
                   countVars, summary, fatal, histVars, prevRun, populated, auxVars>>

\* img_url = extract_image_url(weblink): None on any exception and when the page
\* has no a.img-holder img.img-fluid with a src
extract_image_url(i) == IF remote[i] \in {"page_error", "no_markup"} THEN None ELSE <<"i">>

\* png_bytes = download_and_convert_image(img_url): None on any exception
download_and_convert_image(i) ==
    IF remote[i] \in {"image_error", "corrupt_image"} THEN None ELSE PngOf(i)

\* requests.get(..., timeout=REQUEST_TIMEOUT) answers or raises, whatever the server does
RequestReturns_NoTimeout(response) == response \notin {"page_error", "image_error"}

RequestReturns(response) == TRUE

WorkerExtract(i) ==
    /\ task[i].st = "extract"
    /\ RequestReturns(remote[i])
    /\ task' = [task EXCEPT ![i] = IF ~Truthy(extract_image_url(i))
                                   THEN Returned(None, None)
                                   ELSE AtDownload]
    /\ UNCHANGED <<storeVars, remote, run, pc, discs, submitted, queue, yielded, cur,
                   countVars, summary, fatal, histVars, prevRun, populated, auxVars>>

WorkerDownload(i) ==
    /\ task[i].st = "download"
    /\ RequestReturns(remote[i])
    /\ LET png_bytes == download_and_convert_image(i) IN
          task' = [task EXCEPT ![i] = IF ~Truthy(png_bytes)
                                      THEN Returned(None, None)
                                      ELSE Returned(png_bytes, FileName(DiscOf(i)))]
    /\ UNCHANGED <<storeVars, remote, run, pc, discs, submitted, queue, yielded, cur,
                   countVars, summary, fatal, histVars, prevRun, populated, auxVars>>

-----------------------------------------------------------------------------
(* main(): the loop over as_completed *)

\* record i is added to the counters: they become s and f
Count(i, s, f) ==
    /\ success_count' = s
    /\ fail_count' = f
    /\ counted' = [counted EXCEPT ![i] = @ + (s - success_count) + (f - fail_count)]
    /\ failedIds' = IF f > fail_count THEN failedIds \cup {i} ELSE failedIds

\* except Exception: log, fail_count += 1, and the loop goes on
ExceptFailCount_Forgot(f) == f

ExceptFailCount(f) == f + 1

ExceptNext_Propagate == "aborted"

ExceptNext == "collect"

\* if png_bytes and filename
IsSuccess_Always(t) == TRUE

IsSuccess(t) == Truthy(t.png) /\ Truthy(t.filename)

\* as_completed yields a finished future whose result() raises
YieldRaised(i) ==
    /\ pc = "collect"
    /\ i \in Finished \ yielded
    /\ task[i].st = "raised"
    /\ yielded' = yielded \cup {i}
    /\ Count(i, success_count, ExceptFailCount(fail_count))
    /\ pc' = ExceptNext
    /\ UNCHANGED <<storeVars, remote, run, discs, submitted, poolVars, cur, summary,
                   fatal, histVars, prevRun, populated, auxVars>>

\* ... whose result has no png_bytes: fail_count += 1
YieldFailure(i) ==
    /\ pc = "collect"
    /\ i \in Finished \ yielded
    /\ task[i].st = "returned"
    /\ ~IsSuccess(task[i])
    /\ yielded' = yielded \cup {i}
    /\ Count(i, success_count, fail_count + 1)
    /\ UNCHANGED <<storeVars, remote, run, pc, discs, submitted, poolVars, cur, summary,
                   fatal, histVars, prevRun, populated, auxVars>>

\* ... whose result has png_bytes and filename: on to update_db_image
YieldSuccess(i) ==
    /\ pc = "collect"
    /\ i \in Finished \ yielded
    /\ task[i].st = "returned"
    /\ IsSuccess(task[i])
    /\ yielded' = yielded \cup {i}
    /\ cur' = i
    /\ pc' = "update"
    /\ UNCHANGED <<storeVars, remote, run, discs, submitted, poolVars, countVars,
                   summary, fatal, histVars, prevRun, populated, auxVars>>

\* conn = sqlite3.connect(db_path); cursor = conn.cursor()
update_db_connect ==
    /\ pc = "update"
    /\ openConns' = openConns + 1
    /\ pc' = "execute"
    /\ UNCHANGED <<storeVars, remote, run, discs, submitted, poolVars, yielded, cur,
                   countVars, summary, fatal, histVars, prevRun, populated, alterCount,
                   lastWriter, callVars>>

\* UPDATE disc_data SET img = ? WHERE id = ?
UpdateRow_NoWhere(cat, id, data) == [r \in DOMAIN cat |-> [cat[r] EXCEPT !.img = Blob(data)]]

UpdateRow_NotCommitted(cat, id, data) == cat

UpdateRow(cat, id, data) == [cat EXCEPT ![id].img = Blob(data)]

\* discs is a list fetchall() built before the selector closed its connection: an
\* UPDATE of row id does not reach it
SnapshotAfterWrite_Live(d, id) == SelectSeq(d, LAMBDA x : x.id # id)

SnapshotAfterWrite(d, id) == d

\* an exception leaves update_db_image before conn.close(): the connection goes
\* when the frame that holds it is released, as the handler in main() ends
ConnsAfterRaise(n) == n - 1

\* conn.close()
ConnsAfterClose_Leak(n) == n

ConnsAfterClose(n) == n - 1

\* cursor.execute(UPDATE), conn.commit() and conn.close(): the row is written and
\* the connection closed, or execute or commit raises and nothing is written
update_db_image ==
    /\ pc = "execute"
    /\ \/ /\ catalog' = UpdateRow(catalog, cur, task[cur].png)
          /\ discs' = SnapshotAfterWrite(discs, cur)
          /\ dbUpdates' = [dbUpdates EXCEPT ![cur] = @ + 1]
          /\ populated' = populated \cup {cur}
          /\ openConns' = ConnsAfterClose(openConns)
          /\ pc' = "save"
          /\ UNCHANGED <<cur, countVars, dbRaised>>
       \/ /\ dbRaised' = dbRaised \cup {cur}
          /\ Count(cur, success_count, ExceptFailCount(fail_count))
          /\ openConns' = ConnsAfterRaise(openConns)
          /\ cur' = 0
          /\ pc' = ExceptNext
          /\ UNCHANGED <<catalog, discs, dbUpdates, populated>>
    /\ UNCHANGED <<hasImg, files, remote, run, submitted, poolVars, yielded,
                   summary, fatal, fileWrites, prevRun, alterCount, lastWriter, callVars>>

\* open(filepath, "wb") leaves one file of that name, holding what is written next
WriteFile_Append(name, data) ==
    [f \in DOMAIN files \cup {name} |->
        IF f = name THEN (IF name \in DOMAIN files THEN files[name] ELSE <<>>) \o data
        ELSE files[f]]

WriteFile(name, data) ==
    [f \in DOMAIN files \cup {name} |-> IF f = name THEN data ELSE files[f]]

\* save_to_file(filename, png_bytes), then success_count += 1.  open(.., "wb")
\* raises and leaves the directory alone, or truncates the file; f.write then
\* writes the bytes, or raises and leaves the file cut short
\* record id's call opened the file; ok: it also wrote all its bytes
Opened(name, id, ok) ==
    [f \in DOMAIN lastWriter \cup {name} |->
        IF f = name THEN [id |-> id, ok |-> ok] ELSE lastWriter[f]]

save_to_file ==
    /\ pc = "save"
    /\ \/ /\ files' = WriteFile(task[cur].filename, task[cur].png)
          /\ fileWrites' = [fileWrites EXCEPT ![cur] = @ + 1]
          /\ lastWriter' = Opened(task[cur].filename, cur, TRUE)
          /\ Count(cur, success_count + 1, fail_count)
          /\ pc' = "collect"
       \/ /\ UNCHANGED <<files, fileWrites, lastWriter>>
          /\ Count(cur, success_count, ExceptFailCount(fail_count))
          /\ pc' = ExceptNext
       \/ /\ files' = WriteFile(task[cur].filename, <<>>)
          /\ fileWrites' = [fileWrites EXCEPT ![cur] = @ + 1]
          /\ lastWriter' = Opened(task[cur].filename, cur, FALSE)
          /\ Count(cur, success_count, ExceptFailCount(fail_count))
          /\ pc' = ExceptNext
    /\ cur' = 0
    /\ UNCHANGED <<hasImg, catalog, remote, run, discs, submitted, poolVars, yielded,
                   summary, fatal, dbUpdates, dbRaised, prevRun, populated, openConns,
                   alterCount, callVars>>

\* as_completed ends once it has yielded every future; leaving the with block
\* joins the worker threads
LoopExhausted_NothingReady == Finished \ yielded = {}

LoopExhausted == yielded = DiscIds

ExitLoop ==
    /\ pc = "collect"
    /\ LoopExhausted
    /\ pc' = "summary"
    /\ UNCHANGED <<storeVars, remote, run, discs, submitted, poolVars, yielded, cur,
                   countVars, summary, fatal, histVars, prevRun, populated, auxVars>>

\* logger.info(f"Completed: {success_count} success, {fail_count} failed")
Summary ==
    /\ pc = "summary"
    /\ summary' = <<success_count, fail_count>>
    /\ pc' = "done"
    /\ UNCHANGED <<storeVars, remote, run, discs, submitted, poolVars, yielded, cur,
                   countVars, fatal, histVars, prevRun, populated, auxVars>>

-----------------------------------------------------------------------------
(* The script is run again *)

StartRun ==
    /\ pc \in {"done", "aborted"}
    /\ run < MaxRuns
    /\ run' = run + 1
    /\ prevRun' = [ended |-> pc, dbRaised |-> dbRaised, catalog |-> catalog,
                   files |-> files]
    /\ pc' = "mkdir"
    /\ discs' = <<>>
    /\ submitted' = 0
    /\ queue' = <<>>
    /\ task' = [i \in Ids |-> Pending]
    /\ yielded' = {}
    /\ cur' = 0
    /\ success_count' = 0
    /\ fail_count' = 0
    /\ summary' = <<>>
    /\ fatal' = "none"
    /\ counted' = ZeroCount
    /\ dbUpdates' = ZeroCount
    /\ dbRaised' = {}
    /\ fileWrites' = ZeroCount
    /\ openConns' = 0
    /\ failedIds' = {}
    /\ lastWriter' = <<>>
    /\ UNCHANGED <<storeVars, remote, populated, alterCount, callVars>>

-----------------------------------------------------------------------------

Next ==
    \/ MkDir
    \/ ensure_img_column
    \/ Select
    \/ NoDiscs
    \/ SomeDiscs
    \/ Submit
    \/ WorkerStart
    \/ \E i \in Ids : WorkerExtract(i)
    \/ \E i \in Ids : WorkerDownload(i)
    \/ \E i \in Ids : YieldRaised(i)
    \/ \E i \in Ids : YieldFailure(i)
    \/ \E i \in Ids : YieldSuccess(i)
    \/ update_db_connect
    \/ update_db_image
    \/ save_to_file
    \/ ExitLoop
    \/ Summary
    \/ StartRun

Spec == Init /\ [][Next]_vars

\* A catalog with more candidates than the pool has threads, none of whose pages
\* can be fetched
InitPool ==
    /\ hasImg = TRUE
    /\ catalog = [i \in 1..PoolDiscs |-> BaseRow]
    /\ remote = [i \in 1..PoolDiscs |-> "page_error"]
    /\ files = <<>>
    /\ InitRun
    /\ NoCall

NextPool ==
    \/ MkDir
    \/ ensure_img_column
    \/ Select
    \/ SomeDiscs
    \/ Submit
    \/ WorkerStart
    \/ \E i \in Ids : WorkerExtract(i)
    \/ \E i \in Ids : YieldFailure(i)
    \/ ExitLoop
    \/ Summary

SpecPool == InitPool /\ [][NextPool]_vars

-----------------------------------------------------------------------------
(* extract_image_url and download_and_convert_image as functions of their data *)

MaxSrcLen == 3

\* img_url.startswith(p)
StartsWith(s, p) == Len(s) >= Len(p) /\ SubSeq(s, 1, Len(p)) = p

\* s.find of the first character of s that is in set: its position, or 0
IndexOf(s, set) ==
    IF \E k \in 1..Len(s) : s[k] \in set
    THEN CHOOSE k \in 1..Len(s) : s[k] \in set /\ \A j \in 1..(k - 1) : s[j] \notin set
    ELSE 0

Upper == {"H", "T", "P", "S"}
Alpha == {"h", "t", "p", "s", "a", "b", "x", "q", "f"} \cup Upper
SchemeChars == Alpha \cup {"8", "+", "-", "."}

\* str.lower() on one character
Lower(c) ==
    CASE c = "H" -> "h" [] c = "T" -> "t" [] c = "P" -> "p" [] c = "S" -> "s"
      [] OTHER -> c

LowerAll(s) == [k \in 1..Len(s) |-> Lower(s[k])]

\* urllib.parse.urlparse(url): the scheme is what stands before the first ":" when
\* that is a letter followed by scheme characters, lower-cased; the netloc is what
\* follows "//" up to the next "/", "?" or "#"
urlparse(url) ==
    LET i == IndexOf(url, {":"})
        hasScheme == /\ i > 1
                     /\ url[1] \in Alpha
                     /\ \A k \in 1..(i - 1) : url[k] \in SchemeChars
        rest == IF hasScheme THEN SubSeq(url, i + 1, Len(url)) ELSE url
        afterSlashes == SubSeq(rest, 3, Len(rest))
        j == IndexOf(afterSlashes, {"/", "?", "#"})
    IN  [scheme |-> IF hasScheme THEN LowerAll(SubSeq(url, 1, i - 1)) ELSE <<>>,
         netloc |-> IF ~StartsWith(rest, <<"/", "/">>) THEN <<>>
                    ELSE IF j = 0 THEN afterSlashes
                    ELSE SubSeq(afterSlashes, 1, j - 1)]

Https == <<"h", "t", "t", "p", "s">>
Http == <<"h", "t", "t", "p">>

\* "Handle relative URLs": lines 97-102
ResolveImgUrl(weblink, img_url) ==
    IF StartsWith(img_url, <<"/", "/">>)
    THEN Https \o <<":">> \o img_url
    ELSE IF StartsWith(img_url, <<"/">>)
    THEN LET parsed == urlparse(weblink)
         IN  parsed.scheme \o <<":", "/", "/">> \o parsed.netloc \o img_url
    ELSE img_url

\* if img_holder and img_holder.get("src"): ... return img_url; else return None
ImgUrlOfMarkup(weblink, src) ==
    IF Truthy(src) THEN ResolveImgUrl(weblink, src) ELSE None

\* the mode of the image that is saved as PNG
NormalizeMode_AllRGB(mode) == IF mode # "RGB" THEN "RGB" ELSE mode

NormalizeMode(mode) ==
    IF mode \in {"RGBA", "LA", "P"}
    THEN IF mode = "P" THEN "RGBA" ELSE mode
    ELSE IF mode # "RGB" THEN "RGB" ELSE mode

\* pages requests.get can fetch
PageUrls ==
    { Http \o <<":", "/", "/", "a", "/", "p">>,
      Https \o <<":", "/", "/", "a", "/", "p">>,
      <<"H", "T", "T", "P", "S", ":", "/", "/", "a">>,
      Https \o <<":", "/", "/", "a", ":", "8", "/", "p", "?", "q">>,
      Http \o <<":", "/", "/", "b", "#", "f">> }

SrcChars == {"/", "x", ":"}

\* the src attributes of the img element: every short one, and an absolute one
Srcs ==
    UNION {[1..n -> SrcChars] : n \in 0..MaxSrcLen}
        \cup {Https \o <<":", "/", "/", "b", "/", "x">>}

\* the modes Pillow gives an opened image
Modes ==
    {"1", "L", "P", "RGB", "RGBA", "CMYK", "YCbCr", "LAB", "HSV", "I", "F", "LA",
     "PA", "RGBX", "RGBa", "La", "I;16"}

Inputs ==
    [fn : {"extract_image_url"}, weblink : PageUrls, src : Srcs]
        \cup [fn : {"download_and_convert_image"}, mode : Modes]

InitPure ==
    /\ hasImg = TRUE
    /\ catalog = <<>>
    /\ remote = <<>>
    /\ files = <<>>
    /\ InitRun
    /\ arg \in Inputs
    /\ ret = NotCalled

pureConst ==
    <<storeVars, remote, run, pc, discs, submitted, poolVars, yielded, cur, countVars,
      summary, fatal, histVars, prevRun, populated, openConns, alterCount, lastWriter>>

CallExtract ==
    /\ ~ret.done
    /\ arg.fn = "extract_image_url"
    /\ ret' = [done |-> TRUE, v |-> ImgUrlOfMarkup(arg.weblink, arg.src)]
    /\ UNCHANGED <<arg, pureConst>>

CallConvert ==
    /\ ~ret.done
    /\ arg.fn = "download_and_convert_image"
    /\ ret' = [done |-> TRUE, v |-> NormalizeMode(arg.mode)]
    /\ UNCHANGED <<arg, pureConst>>

NextPure == CallExtract \/ CallConvert

SpecPure == InitPure /\ [][NextPure]_vars

-----------------------------------------------------------------------------
(* One run over records whose manufacturer and model give the same file name *)

CollideDiscs == 3

\* "M" with "a  " and "M" with "a/": both are M_a_.png
CollidingName(i) ==
    [manufacturer |-> Maker,
     model |-> IF i % 2 = 1 THEN Text(<<"a", " ", " ">>) ELSE Text(<<"a", "/">>)]

InitCollide ==
    /\ hasImg = TRUE
    /\ catalog = [i \in 1..CollideDiscs |-> Row(Text(PageUrl), NULL, CollidingName(i))]
    /\ remote = [i \in 1..CollideDiscs |-> "ok"]
    /\ files = <<>>
    /\ InitRun
    /\ NoCall

NextCollide ==
    \/ MkDir
    \/ ensure_img_column
    \/ Select
    \/ SomeDiscs
    \/ Submit
    \/ WorkerStart
    \/ \E i \in Ids : WorkerExtract(i)
    \/ \E i \in Ids : WorkerDownload(i)
    \/ \E i \in Ids : YieldSuccess(i)
    \/ update_db_connect
    \/ update_db_image
    \/ save_to_file
    \/ ExitLoop
    \/ Summary

SpecCollide == InitCollide /\ [][NextCollide]_vars

-----------------------------------------------------------------------------
(* One run whose threads keep running *)

LiveDiscs == 2

\* a record that is fetched, one whose file name cannot be derived, one that is
\* not selected
LiveRows(h) ==
    { BaseRow,
      Row(Text(PageUrl), NULL, [manufacturer |-> NULL, model |-> Text(<<"c">>)]),
      Row(IF h THEN Text(PageUrl) ELSE NULL,
          IF h THEN Blob(<<"o", "l", "d">>) ELSE NULL, BaseName) }

InitLive ==
    /\ hasImg \in BOOLEAN
    /\ catalog \in [1..LiveDiscs -> LiveRows(hasImg)]
    /\ remote \in [1..LiveDiscs -> Responses]
    /\ \A i \in 1..LiveDiscs : catalog[i] # BaseRow => remote[i] = "ok"
    /\ files = <<>>
    /\ InitRun
    /\ NoCall

NextLive ==
    \/ MkDir
    \/ ensure_img_column
    \/ Select
    \/ NoDiscs
    \/ SomeDiscs
    \/ Submit
    \/ WorkerStart
    \/ \E i \in Ids : WorkerExtract(i)
    \/ \E i \in Ids : WorkerDownload(i)
    \/ \E i \in Ids : YieldRaised(i)
    \/ \E i \in Ids : YieldFailure(i)
    \/ \E i \in Ids : YieldSuccess(i)
    \/ update_db_connect
    \/ update_db_image
    \/ save_to_file
    \/ ExitLoop
    \/ Summary

\* the main thread and the pool's threads are scheduled, and every call returns
\* or raises: a step that can be taken is taken
SpecLive == InitLive /\ [][NextLive]_vars /\ WF_vars(NextLive)

-----------------------------------------------------------------------------
(* Properties *)

\* "source reference non-null and non-empty, asset slot null or empty"
Eligible(row) ==
    /\ row.weblink.type # "null"
    /\ Len(row.weblink.v) > 0
    /\ (row.img.type = "null" \/ Len(row.img.v) = 0)

\* the outcome of a finished task is not Success
NotSuccess(t) == t.st = "raised" \/ (t.st = "returned" /\ t.png = None)
Success(t) == t.st = "returned" /\ t.png # None

RunOver == pc \in {"summary", "done"}

\* C1: once every task of a run with candidates has completed, success_count +
\* fail_count is the number of candidates, and every candidate was added to a
\* counter exactly once (whichever stage failed, in whatever order).
C1_CountsAddUp ==
    (RunOver /\ discs # <<>>) =>
        /\ success_count + fail_count = Len(discs)
        /\ \A i \in Ids : counted[i] = IF i \in DiscIds THEN 1 ELSE 0

C1_Witness ==
    /\ pc = "done"
    /\ Len(discs) = 2
    /\ success_count = 1
    /\ fail_count = 1
    /\ dbRaised # {}

\* C2: a record whose img an earlier run's update_db_image has set is not among
\* the discs any later run selects.
C2_PopulatedNeverReselected ==
    \A i \in populated : dbUpdates[i] = 0 => i \notin DiscIds

C2_Witness ==
    /\ run = 2
    /\ pc = "selected"
    /\ populated # {}
    /\ discs # <<>>

\* C3 as stated: a second run that follows a completed run leaves the catalog as
\* the first run left it.
C3_RerunLeavesCatalog ==
    (run >= 2 /\ prevRun.ended = "done" /\ pc = "done") => catalog = prevRun.catalog

\* C3, amended: a run that follows a completed run none of whose catalog updates
\* raised performs no catalog update and writes no file: catalog and backup
\* directory stay as the earlier run left them.
C3_RerunAfterCleanRun ==
    (run >= 2 /\ prevRun.ended = "done" /\ prevRun.dbRaised = {}) =>
        /\ catalog = prevRun.catalog
        /\ files = prevRun.files
        /\ \A i \in Ids : dbUpdates[i] = 0 /\ fileWrites[i] = 0

C3_Witness ==
    /\ run = 2
    /\ pc = "done"
    /\ prevRun.ended = "done"
    /\ prevRun.dbRaised = {}
    /\ populated # {}
    /\ discs # <<>>

C5_FailureWritesNothing ==
    \A i \in Ids :
        NotSuccess(task[i]) =>
            /\ dbUpdates[i] = 0
            /\ fileWrites[i] = 0
            /\ catalog[i] = prevRun.catalog[i]
            /\ Eligible(catalog[i])

C5_Witness ==
    /\ pc = "done"
    /\ NotSuccess(task[1])
    /\ remote[1] = "corrupt_image"
    /\ dbUpdates[2] = 1
    /\ fileWrites[2] = 1

\* C6: a record whose img one run has set has a file under its derived name in
\* the backup directory once a later run has ended.
C6_BothWritesLand ==
    (pc = "done" /\ run = MaxRuns) =>
        \A i \in populated :
            dbUpdates[i] = 0 => FileName(catalog[i]) \in DOMAIN files

\* C7: never more than MAX_WORKERS tasks are executing process_disc.
C7_BoundedWorkers == Cardinality(Executing) <= MAX_WORKERS

C7_Witness ==
    /\ Cardinality(Executing) = MAX_WORKERS
    /\ queue # <<>>

\* C8: a task's failure stays its own.  The run is never aborted once tasks are
\* dispatched; no record is counted twice; and when the run is over every
\* candidate's future has finished and been handled exactly once, and every
\* Success whose update did not itself raise is in the catalog.
C8_FailureIsolated ==
    /\ pc = "aborted" => submitted = 0
    /\ \A i \in Ids : counted[i] <= 1
    /\ RunOver =>
          \A i \in DiscIds :
              /\ i \in Finished
              /\ i \in yielded
              /\ counted[i] = 1
              /\ (Success(task[i]) /\ i \notin dbRaised) =>
                    /\ dbUpdates[i] = 1
                    /\ catalog[i].img = Blob(task[i].png)

C8_Witness ==
    /\ pc = "done"
    /\ task[1].st = "raised"
    /\ Success(task[2])
    /\ dbUpdates[2] = 1
    /\ fileWrites[2] = 1
    /\ success_count = 1

\* C9: when the summary is logged no task is queued or executing, every future
\* has finished and been handled, and the loop body is not in progress.
C9_SummaryAfterAll ==
    summary # <<>> =>
        /\ submitted = Len(discs)
        /\ queue = <<>>
        /\ Executing = {}
        /\ \A i \in DiscIds : i \in Finished /\ i \in yielded /\ counted[i] = 1
        /\ cur = 0

C9_Witness ==
    /\ summary = <<1, 1>>
    /\ Len(discs) = 2

\* C10: when ensure_img_column or get_discs_to_process raises, the run is over
\* with nothing dispatched and neither catalog nor backup directory touched.
C10_FatalAborts ==
    fatal \in {"schema", "selector"} =>
        /\ pc = "aborted"
        /\ submitted = 0
        /\ \A i \in Ids : task[i].st = "none" /\ dbUpdates[i] = 0 /\ fileWrites[i] = 0
        /\ catalog = prevRun.catalog
        /\ files = prevRun.files

C10_Witness ==
    /\ fatal = "selector"
    /\ \E i \in Ids : Eligible(catalog[i])

\* a step of a worker thread: a future moves, and main() neither submits nor restarts
WorkerStep == task' # task /\ submitted' = submitted /\ run' = run

\* C11: a connection for a catalog write is open only while main() is inside
\* update_db_image, one at a time, and closed again before anything else happens;
\* no step of a worker thread touches the catalog or a connection.
C11_SerializedWrites ==
    /\ [](openConns <= 1 /\ (openConns = 1 <=> pc = "execute"))
    /\ [][WorkerStep => UNCHANGED <<catalog, hasImg, openConns>>]_vars

C11_Witness ==
    /\ pc = "execute"
    /\ openConns = 1
    /\ Executing # {}
    /\ cur \notin Executing

\* C12: from selection on, the candidates of the run are the records that were
\* eligible when the run began, whatever the run has written since; exactly the
\* submitted ones have a future, and when the run is over each was handled once.
C12_SnapshotStable ==
    pc \notin {"mkdir", "ensure", "select", "aborted"} =>
        /\ DiscIds = {i \in Ids : Eligible(prevRun.catalog[i])}
        /\ Len(discs) = Cardinality(DiscIds)
        /\ {i \in Ids : task[i].st # "none"} = {discs[k].id : k \in 1..submitted}
        /\ RunOver => (yielded = DiscIds /\ \A i \in DiscIds : counted[i] = 1)

C12_Witness ==
    /\ pc = "collect"
    /\ Len(discs) = 2
    /\ dbUpdates[1] = 1
    /\ ~Eligible(catalog[1])
    /\ 2 \in Executing

\* C13: ensure_img_column leaves the column present when it returns, changes no
\* row and no file, does nothing when the column is there, and over all runs
\* adds the column at most once; the column never goes away.
C13_SchemaGuard ==
    /\ [](alterCount <= 1)
    /\ [][hasImg => hasImg']_vars
    /\ [][pc = "ensure" =>
            /\ catalog' = catalog
            /\ files' = files
            /\ (pc' = "select" => hasImg')
            /\ (hasImg => alterCount' = alterCount)
            /\ (alterCount' # alterCount => (~hasImg /\ hasImg'))]_vars

C13_Witness ==
    /\ run = 2
    /\ pc = "select"
    /\ alterCount = 1
    /\ hasImg

\* C14: when a run is over, the row of every record it counted as failed is as
\* the run found it, and eligible.
C14_FailedRowsUntouched ==
    RunOver =>
        \A i \in failedIds : catalog[i] = prevRun.catalog[i] /\ Eligible(catalog[i])

\* C17: a run changes nothing in the catalog but the img of its candidates: the
\* same rows exist, weblink, manufacturer and model are as the run found them,
\* rows outside the candidates are untouched, and no row is updated twice.
C17_OnlyAssetSlot ==
    /\ DOMAIN catalog = DOMAIN prevRun.catalog
    /\ \A i \in Ids :
          /\ catalog[i].weblink = prevRun.catalog[i].weblink
          /\ catalog[i].manufacturer = prevRun.catalog[i].manufacturer
          /\ catalog[i].model = prevRun.catalog[i].model
          /\ i \notin DiscIds => catalog[i] = prevRun.catalog[i]
          /\ dbUpdates[i] <= 1
          /\ catalog[i].img # prevRun.catalog[i].img =>
                (i \in DiscIds /\ dbUpdates[i] = 1 /\ catalog[i].img = Blob(task[i].png))

C17_Witness ==
    /\ pc = "done"
    /\ dbUpdates[1] = 1
    /\ catalog[1].img = Blob(PngOf(1))
    /\ 2 \notin DiscIds
    /\ catalog[2].img = Blob(<<"o", "l", "d">>)

\* C19: a record's backup file is opened only after the same run has put the
\* same bytes into its img; a record whose catalog update raised gets no file.
C19_CatalogBeforeBackup ==
    /\ pc = "save" => (dbUpdates[cur] = 1 /\ catalog[cur].img = Blob(task[cur].png))
    /\ \A i \in Ids :
          /\ fileWrites[i] > 0 =>
                (dbUpdates[i] = 1 /\ Truthy(task[i].png)
                    /\ catalog[i].img = Blob(task[i].png))
          /\ i \in dbRaised => (fileWrites[i] = 0 /\ dbUpdates[i] = 0)
    /\ \A f \in DOMAIN lastWriter :
          lastWriter[f].ok => Blob(files[f]) = catalog[lastWriter[f].id].img

C19_Witness ==
    /\ pc = "done"
    /\ fileWrites[1] = 1
    /\ files[task[1].filename] = PngOf(1)
    /\ 2 \in dbRaised

\* C15 (as claimed): "//..." gets the page's scheme in front, "/..." the page's
\* scheme and host, anything else comes back as it is.
C15_ReferenceResolution ==
    (ret.done /\ arg.fn = "extract_image_url" /\ Truthy(arg.src)) =>
        LET origin == urlparse(arg.weblink) IN
        ret.v = IF StartsWith(arg.src, <<"/", "/">>)
                THEN origin.scheme \o <<":">> \o arg.src
                ELSE IF StartsWith(arg.src, <<"/">>)
                THEN origin.scheme \o <<":", "/", "/">> \o origin.netloc \o arg.src
                ELSE arg.src

\* C16 (as claimed): RGBA, LA and P sources are encoded as RGBA, any other
\* source that is not RGB as RGB, and an RGB source as RGB.
C16_ModeNormalization ==
    (ret.done /\ arg.fn = "download_and_convert_image") =>
        ret.v = IF arg.mode \in {"RGBA", "LA", "P"} THEN "RGBA" ELSE "RGB"

\* C16 (amended): a P source is encoded as RGBA; RGBA and LA sources keep their
\* mode, alpha included; an RGB source stays RGB; every other source becomes RGB.
C16_ModeNormalizationKeepsLA ==
    (ret.done /\ arg.fn = "download_and_convert_image") =>
        /\ arg.mode = "P" => ret.v = "RGBA"
        /\ arg.mode \in {"RGBA", "LA"} => ret.v = arg.mode
        /\ arg.mode \notin {"P", "RGBA", "LA"} => ret.v = "RGB"

C16_Witness ==
    /\ ret.done
    /\ arg.fn = "download_and_convert_image"
    /\ arg.mode = "LA"
    /\ ret.v = "LA"

\* the run counted record i as a success
Succeeded(i) == counted[i] = 1 /\ i \notin failedIds

\* C18: when a run is over and two of its successful records have the same file
\* name, the file under that name holds the complete bytes of one of the
\* successful records of that name, the one persisted last, and each of the two
\* has its own bytes in its own img.
C18_LastWriterWins ==
    pc = "done" =>
        \A i, j \in Ids :
            (i # j /\ Succeeded(i) /\ Succeeded(j)
                /\ task[i].filename = task[j].filename) =>
                LET f == task[i].filename IN
                /\ f \in DOMAIN files
                /\ \E k \in Ids : /\ Succeeded(k)
                                  /\ task[k].filename = f
                                  /\ files[f] = task[k].png
                /\ lastWriter[f].ok => files[f] = task[lastWriter[f].id].png
                /\ catalog[i].img = Blob(task[i].png)
                /\ catalog[j].img = Blob(task[j].png)

\* C20 (as claimed): every run eventually emits its summary, or ends at once on
\* an empty candidate set.
C20_SummaryAlwaysEmitted ==
    <>(summary # <<>> \/ (pc = "done" /\ discs = <<>> /\ fatal = "none"))

\* C20 (amended): every run ends; a run that got its candidates ends normally;
\* every dispatched task completes and its outcome is counted; with candidates
\* the summary is emitted; without, the run ends in one step that dispatches and
\* writes nothing.
C20_RunTerminates ==
    /\ <>(pc \in {"done", "aborted"})
    /\ (pc = "selected") ~> (pc = "done" /\ (discs = <<>> \/ summary # <<>>))
    /\ \A i \in 1..LiveDiscs :
          (task[i].st # "none") ~> (i \in Finished /\ counted[i] = 1)
    /\ [][(pc = "selected" /\ discs = <<>>) =>
            (pc' = "done" /\ UNCHANGED <<storeVars, task, queue, submitted, summary>>)]_vars

C20_Witness ==
    /\ pc = "done"
    /\ Len(discs) = LiveDiscs
    /\ summary = <<1, 1>>
    /\ \A i \in Ids : i \in Finished /\ counted[i] = 1

====
